---- MODULE Spec2Model ----
(***************************************************************************)
(* A model of the recipe store of app.py: the RecipeManager class, the     *)
(* module-level DEFAULT_FOLDERS list it shares, the local JSON file and    *)
(* the GitHub mirror.                                                      *)
(*                                                                         *)
(* Python values are modelled as tagged nodes:                             *)
(*   None            [t |-> "null"]                                        *)
(*   int             [t |-> "num",  n |-> 3]                               *)
(*   str             [t |-> "str",  s |-> <<symbols>>]                     *)
(*   list            [t |-> "list", items |-> <<nodes>>]                   *)
(*   dict            [t |-> "obj",  keys |-> <<..>>, vals |-> <<nodes>>]   *)
(* A str is a sequence of symbols; a word such as "Curry" is one symbol,   *)
(* the characters that the code inspects (newline, blank) are symbols of   *)
(* their own.  A dict keeps its insertion order, as Python's does.         *)
(* The Japanese keys of the source are written in romaji:                  *)
(*   "tejun" = 手順, "shokuzai" = 食材, "chomiryo" = 調味料, "bunryo" = 分量  *)
(***************************************************************************)
EXTENDS Integers, Sequences, FiniteSets, TLC

VARIABLES
    DEFAULT_FOLDERS,  \* the module-level list object (a "list" node)
    files,            \* the file system: file name -> text, or NoFile
    github,           \* "github" in st.secrets: is the mirror configured
    remote,           \* the blob of the GitHub repository
    network,          \* "reliable": the calls to GitHub do not fail in this run
    mgr,              \* the live RecipeManager object
    uuids,            \* how many uuid4() values have been drawn
    calls,            \* how many method calls have been made on managers
    saved,            \* file name -> the document in memory at its last save
    last,             \* the last call: what it was, its result, the state before it
    writers,          \* processes of their own, each inside save_data or idle
    accepted          \* the write calls the GitHub repository has accepted, in order

vars == <<DEFAULT_FOLDERS, files, github, network, remote, mgr, uuids, calls, saved, last,
         writers, accepted>>

------------------------------------------------------------------------------
(* Python values *)

None == [t |-> "null"]
Num(n) == [t |-> "num", n |-> n]
Str(s) == [t |-> "str", s |-> s]
Word(w) == [t |-> "str", s |-> <<w>>]
EmptyStr == [t |-> "str", s |-> <<>>]
List(items) == [t |-> "list", items |-> items]
Dict(keys, vals) == [t |-> "obj", keys |-> keys, vals |-> vals]

IsStr(v) == v.t = "str"
IsList(v) == v.t = "list"

\* Python truthiness of a str: the empty string is falsy
Truthy(v) == ~(v.t = "str" /\ v.s = <<>>) /\ v.t # "null"

KeyIndex(d, k) ==
    IF \E i \in 1..Len(d.keys) : d.keys[i] = k
    THEN CHOOSE i \in 1..Len(d.keys) : d.keys[i] = k
    ELSE 0

\* k in d
Has(d, k) == KeyIndex(d, k) # 0

\* d[k], for a key that is there
Get(d, k) == d.vals[KeyIndex(d, k)]

\* d.get(k, default)
GetOr(d, k, default) == IF Has(d, k) THEN Get(d, k) ELSE default

\* d[k] = v: in place for a key that is there, else appended
DictSet(d, k, v) ==
    IF Has(d, k)
    THEN Dict(d.keys, [d.vals EXCEPT ![KeyIndex(d, k)] = v])
    ELSE Dict(Append(d.keys, k), Append(d.vals, v))

\* x in list
InList(x, l) == \E i \in 1..Len(l.items) : l.items[i] = x

\* list.insert(0, x)
Insert0(l, x) == List(<<x>> \o l.items)

\* list.append(x)
ListAppend(l, x) == List(Append(l.items, x))

------------------------------------------------------------------------------
(* json.dumps and json.load: the text of a file is a sequence of symbols.   *)
(* The indentation that indent=4 adds is white space between tokens and is  *)
(* left out.                                                                *)

Quote == "\""
Backslash == "\\"
Newline == "\n"
Blank == " "
Digits == <<"0", "1", "2", "3", "4", "5", "6", "7", "8", "9">>

RECURSIVE Decimal(_)
Decimal(n) == IF n < 10 THEN <<Digits[n + 1]>>
              ELSE Append(Decimal(n \div 10), Digits[(n % 10) + 1])

RECURSIVE Escape(_)
Escape(s) ==
    IF s = <<>> THEN <<>>
    ELSE LET c == Head(s)
             e == IF c = Newline THEN <<Backslash, "n">>
                  ELSE IF c = Quote \/ c = Backslash THEN <<Backslash, c>>
                  ELSE <<c>>
         IN e \o Escape(Tail(s))

DumpStr(s) == <<Quote>> \o Escape(s) \o <<Quote>>

RECURSIVE json_dumps(_), DumpItems(_), DumpMembers(_, _)
json_dumps(v) ==
    CASE v.t = "null" -> <<"null">>
      [] v.t = "num"  -> Decimal(v.n)
      [] v.t = "str"  -> DumpStr(v.s)
      [] v.t = "list" -> <<"[">> \o DumpItems(v.items) \o <<"]">>
      [] v.t = "obj"  -> <<"{">> \o DumpMembers(v.keys, v.vals) \o <<"}">>
DumpItems(items) ==
    IF items = <<>> THEN <<>>
    ELSE json_dumps(Head(items))
         \o (IF Len(items) > 1 THEN <<",">> ELSE <<>>)
         \o DumpItems(Tail(items))
DumpMembers(keys, vals) ==
    IF keys = <<>> THEN <<>>
    ELSE DumpStr(<<Head(keys)>>) \o <<":">> \o json_dumps(Head(vals))
         \o (IF Len(keys) > 1 THEN <<",">> ELSE <<>>)
         \o DumpMembers(Tail(keys), Tail(vals))

\* the parser works on positions of the text; a result is [ok, v, i]:
\* the value read and the position after it
Fail == [ok |-> FALSE, v |-> None, i |-> 0]
Ok(v, i) == [ok |-> TRUE, v |-> v, i |-> i]
At(t, i) == IF i >= 1 /\ i <= Len(t) THEN t[i] ELSE "EOF"
IsDigit(c) == \E d \in 1..10 : Digits[d] = c
DigitValue(c) == (CHOOSE d \in 1..10 : Digits[d] = c) - 1

RECURSIVE ScanStr(_, _, _)
ScanStr(t, j, acc) ==
    IF j > Len(t) THEN Fail
    ELSE IF t[j] = Quote THEN Ok(Str(acc), j + 1)
    ELSE IF t[j] = Backslash
         THEN IF j + 1 > Len(t) THEN Fail
              ELSE ScanStr(t, j + 2,
                           Append(acc, IF t[j + 1] = "n" THEN Newline ELSE t[j + 1]))
    ELSE ScanStr(t, j + 1, Append(acc, t[j]))

RECURSIVE ScanNum(_, _, _)
ScanNum(t, j, acc) ==
    IF IsDigit(At(t, j)) THEN ScanNum(t, j + 1, 10 * acc + DigitValue(t[j]))
    ELSE Ok(Num(acc), j)

RECURSIVE ParseValue(_, _), ParseItems(_, _, _), ParseMembers(_, _, _)
ParseValue(t, i) ==
    LET c == At(t, i) IN
    CASE c = Quote  -> ScanStr(t, i + 1, <<>>)
      [] c = "null" -> Ok(None, i + 1)
      [] IsDigit(c) -> ScanNum(t, i, 0)
      [] c = "["    -> IF At(t, i + 1) = "]" THEN Ok(List(<<>>), i + 2)
                       ELSE ParseItems(t, i + 1, <<>>)
      [] c = "{"    -> IF At(t, i + 1) = "}" THEN Ok(Dict(<<>>, <<>>), i + 2)
                       ELSE ParseMembers(t, i + 1, Dict(<<>>, <<>>))
      [] OTHER      -> Fail
ParseItems(t, i, acc) ==
    LET r == ParseValue(t, i) IN
    IF ~r.ok THEN Fail
    ELSE IF At(t, r.i) = "," THEN ParseItems(t, r.i + 1, Append(acc, r.v))
    ELSE IF At(t, r.i) = "]" THEN Ok(List(Append(acc, r.v)), r.i + 1)
    ELSE Fail
ParseMembers(t, i, acc) ==
    LET k == IF At(t, i) = Quote THEN ScanStr(t, i + 1, <<>>) ELSE Fail IN
    IF ~k.ok \/ Len(k.v.s) # 1 \/ At(t, k.i) # ":" THEN Fail
    ELSE LET r == ParseValue(t, k.i + 1) IN
         IF ~r.ok THEN Fail
         ELSE LET d == DictSet(acc, k.v.s[1], r.v) IN
              IF At(t, r.i) = "," THEN ParseMembers(t, r.i + 1, d)
              ELSE IF At(t, r.i) = "}" THEN Ok(d, r.i + 1)
              ELSE Fail

\* json.load: the value, or a JSONDecodeError (ok = FALSE)
json_load(t) ==
    LET r == ParseValue(t, 1) IN
    IF r.ok /\ r.i = Len(t) + 1 THEN r ELSE Fail

------------------------------------------------------------------------------
(* Program constants *)

DATA_FILE == "recipe_data.json"

\* 未分類, 和食, 洋食, フレンチ, イタリアン, 中華料理, 鍋, アジア
BuiltinFolders ==
    List(<<Word("Uncategorized"), Word("Washoku"), Word("Yoshoku"), Word("French"),
           Word("Italian"), Word("Chinese"), Word("Nabe"), Word("Asia")>>)

------------------------------------------------------------------------------
(* str.split('\n') and str.strip() *)

Whitespace == {Blank, Newline, "\t", "\r"}

RECURSIVE SplitFrom(_, _, _)
SplitFrom(s, i, cur) ==
    IF i > Len(s) THEN <<cur>>
    ELSE IF s[i] = Newline THEN <<cur>> \o SplitFrom(s, i + 1, <<>>)
    ELSE SplitFrom(s, i + 1, Append(cur, s[i]))

\* s.split('\n'): the pieces between newlines, the empty ones too
split(s) == SplitFrom(s, 1, <<>>)

RECURSIVE lstrip(_)
lstrip(s) == IF s # <<>> /\ Head(s) \in Whitespace THEN lstrip(Tail(s)) ELSE s

RECURSIVE rstrip(_)
rstrip(s) == IF s # <<>> /\ s[Len(s)] \in Whitespace
             THEN rstrip(SubSeq(s, 1, Len(s) - 1)) ELSE s

strip(s) == rstrip(lstrip(s))

\* a faulty variant: the lines are not trimmed and the blank ones are kept
UntrimmedLines(lines) == lines

\* [make(line.strip()) for line in lines if line.strip()]
RECURSIVE StrippedLines(_)
StrippedLines(lines) ==
    IF lines = <<>> THEN <<>>
    ELSE (IF strip(Head(lines)) # <<>> THEN <<strip(Head(lines))>> ELSE <<>>)
         \o StrippedLines(Tail(lines))

------------------------------------------------------------------------------
(* RecipeManager._migrate_data *)

StepRow(line) == Dict(<<"tejun">>, <<Str(line)>>)
IngredientRow(line) == Dict(<<"shokuzai", "bunryo">>, <<Str(line), EmptyStr>>)
SeasoningRow(line) == Dict(<<"chomiryo", "bunryo">>, <<Str(line), EmptyStr>>)

\* isinstance(recipe.get(key), str)
IsStrField(recipe, key) == Has(recipe, key) /\ IsStr(Get(recipe, key))

MigrateSteps(recipe) ==
    IF IsStrField(recipe, "steps")
    THEN LET lines == StrippedLines(split(Get(recipe, "steps").s))
         IN DictSet(recipe, "steps", List([i \in 1..Len(lines) |-> StepRow(lines[i])]))
    ELSE recipe

MigrateIngredients(recipe) ==
    IF IsStrField(recipe, "ingredients")
    THEN LET lines == StrippedLines(split(Get(recipe, "ingredients").s))
         IN DictSet(recipe, "ingredients",
                    List([i \in 1..Len(lines) |-> IngredientRow(lines[i])]))
    ELSE recipe

MigrateSeasonings(recipe) ==
    IF IsStrField(recipe, "seasonings")
    THEN LET lines == StrippedLines(split(Get(recipe, "seasonings").s))
         IN DictSet(recipe, "seasonings",
                    List([i \in 1..Len(lines) |-> SeasoningRow(lines[i])]))
    ELSE recipe

\* a faulty variant: the rating is reset whether or not the record has one
MigrateRatingAlways(recipe) == DictSet(recipe, "rating", Num(0))

MigrateRating(recipe) ==
    IF ~Has(recipe, "rating") THEN DictSet(recipe, "rating", Num(0)) ELSE recipe

MigrateRecipe(recipe) ==
    MigrateRating(MigrateSeasonings(MigrateIngredients(MigrateSteps(recipe))))

migrate_data(data) ==
    IF Has(data, "recipes")
    THEN LET rs == Get(data, "recipes").items
         IN DictSet(data, "recipes", List([i \in 1..Len(rs) |-> MigrateRecipe(rs[i])]))
    ELSE data

------------------------------------------------------------------------------
(* RecipeManager._load_data *)

\* a faulty variant: every default is appended, present or not
AppendDefaults(current_folders, defaults) == List(current_folders.items \o defaults)

\* for folder in DEFAULT_FOLDERS: if folder not in current_folders: append
RECURSIVE ReconcileFolders(_, _)
ReconcileFolders(current_folders, defaults) ==
    IF defaults = <<>> THEN current_folders
    ELSE ReconcileFolders(
             IF InList(Head(defaults), current_folders) THEN current_folders
             ELSE ListAppend(current_folders, Head(defaults)),
             Tail(defaults))

\* the branch taken for a file that exists and decodes
LoadDecoded(data, default_folders) ==
    LET migrated == migrate_data(data)
        current_folders == GetOr(migrated, "folders", List(<<>>))
    IN DictSet(migrated, "folders",
               ReconcileFolders(current_folders, default_folders.items))

\* 初期データ構造: "folders" is the DEFAULT_FOLDERS object itself, not a copy
InitialData(default_folders) ==
    Dict(<<"folders", "recipes">>, <<default_folders, List(<<>>)>>)

NoFile == [exists |-> FALSE, text |-> <<>>]
FileOf(text) == [exists |-> TRUE, text |-> text]

\* found: "absent", "corrupt" or "decoded"; aliased: data["folders"] is DEFAULT_FOLDERS
load_data(file, default_folders) ==
    IF file.exists /\ json_load(file.text).ok
    THEN [found |-> "decoded", aliased |-> FALSE,
          data |-> LoadDecoded(json_load(file.text).v, default_folders)]
    ELSE [found |-> IF file.exists THEN "corrupt" ELSE "absent", aliased |-> TRUE,
          data |-> InitialData(default_folders)]

------------------------------------------------------------------------------
(* pandas: a DataFrame is its columns, its index and its rows of cells;     *)
(* DataFrame.to_dict('records') gives one dict per row, keyed by column,    *)
(* and drops the index                                                      *)

DataFrame(columns, index, rows) == [columns |-> columns, index |-> index, rows |-> rows]

to_dict_records(df) == List([i \in 1..Len(df.rows) |-> Dict(df.columns, df.rows[i])])

------------------------------------------------------------------------------
(* The methods of RecipeManager on the document `data`.  Each gives        *)
(*   data: the document after the call                                     *)
(*   ret:  "True", "False", "None", or the exception that left the method  *)
(*   save: whether self.save_data() was called                             *)

Outcome(data, ret, save) == [data |-> data, ret |-> ret, save |-> save]
Raises(data, exception) == [data |-> data, ret |-> exception, save |-> FALSE]

\* the first position of a loop over recipes that tests recipe["id"] == recipe_id
\* at which the loop stops: a match, or a record without "id" (a KeyError); 0 if none
FirstStop(rs, recipe_id) ==
    LET stops == {i \in 1..Len(rs) : ~Has(rs[i], "id") \/ Get(rs[i], "id") = recipe_id}
    IN IF stops = {} THEN 0 ELSE CHOOSE i \in stops : \A j \in stops : i <= j

\* a faulty variant: the new name is put in front of the list
add_folder_in_front(data, folder_name) ==
    IF Truthy(folder_name) /\ ~InList(folder_name, Get(data, "folders"))
    THEN Outcome(DictSet(data, "folders", Insert0(Get(data, "folders"), folder_name)),
                 "True", TRUE)
    ELSE Outcome(data, "False", FALSE)

\* a faulty variant: a name that is already there is appended again
add_folder_unchecked(data, folder_name) ==
    IF Truthy(folder_name)
    THEN Outcome(DictSet(data, "folders", ListAppend(Get(data, "folders"), folder_name)),
                 "True", TRUE)
    ELSE Outcome(data, "False", FALSE)

add_folder(data, folder_name) ==
    IF Truthy(folder_name) /\ ~InList(folder_name, Get(data, "folders"))
    THEN Outcome(DictSet(data, "folders", ListAppend(Get(data, "folders"), folder_name)),
                 "True", TRUE)
    ELSE Outcome(data, "False", FALSE)

NewRecipe(id, title, folder, ingredients_list, seasonings_list, steps_list, rating, logs) ==
    Dict(<<"id", "title", "folder", "ingredients", "seasonings", "steps", "rating", "logs">>,
         <<id, title, folder, ingredients_list, seasonings_list, steps_list, rating, logs>>)

\* uuid is the value str(uuid.uuid4()) draws
add_recipe(data, uuid, title, folder, ingredients_df, seasonings_df, steps_df, rating) ==
    LET new_recipe == NewRecipe(uuid, title, folder,
                                to_dict_records(ingredients_df),
                                to_dict_records(seasonings_df),
                                to_dict_records(steps_df), rating, List(<<>>))
    IN IF ~Has(data, "recipes") THEN Raises(data, "KeyError")
       ELSE Outcome(DictSet(data, "recipes", ListAppend(Get(data, "recipes"), new_recipe)),
                    "None", TRUE)

\* a faulty variant: the updated record starts with no log entries
update_recipe_resetting_logs(data, recipe_id, title, folder, ingredients_df, seasonings_df, steps_df, rating) ==
    IF ~Has(data, "recipes") THEN Raises(data, "KeyError")
    ELSE LET rs == Get(data, "recipes").items
             i == FirstStop(rs, recipe_id)
         IN IF i = 0 THEN Outcome(data, "False", FALSE)
            ELSE Outcome(DictSet(data, "recipes",
                                 List([rs EXCEPT ![i] =
                                          NewRecipe(recipe_id, title, folder,
                                                    to_dict_records(ingredients_df),
                                                    to_dict_records(seasonings_df),
                                                    to_dict_records(steps_df), rating,
                                                    List(<<>>))])),
                         "True", TRUE)

update_recipe(data, recipe_id, title, folder, ingredients_df, seasonings_df, steps_df, rating) ==
    IF ~Has(data, "recipes") THEN Raises(data, "KeyError")
    ELSE LET rs == Get(data, "recipes").items
             i == FirstStop(rs, recipe_id)
         IN IF i = 0 THEN Outcome(data, "False", FALSE)
            ELSE IF ~Has(rs[i], "id") THEN Raises(data, "KeyError")
            ELSE LET logs == GetOr(rs[i], "logs", List(<<>>))
                     updated_recipe ==
                         NewRecipe(recipe_id, title, folder,
                                   to_dict_records(ingredients_df),
                                   to_dict_records(seasonings_df),
                                   to_dict_records(steps_df), rating, logs)
                 IN Outcome(DictSet(data, "recipes", List([rs EXCEPT ![i] = updated_recipe])),
                            "True", TRUE)

\* a faulty variant: the rating is changed in memory and save_data is not called
update_rating_unsaved(data, recipe_id, rating) ==
    IF ~Has(data, "recipes") THEN Raises(data, "KeyError")
    ELSE LET rs == Get(data, "recipes").items
             i == FirstStop(rs, recipe_id)
         IN IF i = 0 THEN Outcome(data, "False", FALSE)
            ELSE Outcome(DictSet(data, "recipes",
                                 List([rs EXCEPT ![i] = DictSet(rs[i], "rating", rating)])),
                         "True", FALSE)

update_rating(data, recipe_id, rating) ==
    IF ~Has(data, "recipes") THEN Raises(data, "KeyError")
    ELSE LET rs == Get(data, "recipes").items
             i == FirstStop(rs, recipe_id)
         IN IF i = 0 THEN Outcome(data, "False", FALSE)
            ELSE IF ~Has(rs[i], "id") THEN Raises(data, "KeyError")
            ELSE Outcome(DictSet(data, "recipes",
                                 List([rs EXCEPT ![i] = DictSet(rs[i], "rating", rating)])),
                         "True", TRUE)

\* now is pd.Timestamp.now().strftime("%Y-%m-%d %H:%M")
add_log(data, recipe_id, log_text, now) ==
    IF ~Has(data, "recipes") THEN Raises(data, "KeyError")
    ELSE LET rs == Get(data, "recipes").items
             i == FirstStop(rs, recipe_id)
             log_entry == Dict(<<"date", "text">>, <<now, log_text>>)
         IN IF i = 0 THEN Outcome(data, "False", FALSE)
            ELSE IF ~Has(rs[i], "id") \/ ~Has(rs[i], "logs") THEN Raises(data, "KeyError")
            ELSE Outcome(DictSet(data, "recipes",
                                 List([rs EXCEPT ![i] =
                                          DictSet(rs[i], "logs",
                                                  Insert0(Get(rs[i], "logs"), log_entry))])),
                         "True", TRUE)

RECURSIVE Without(_, _)
Without(rs, recipe_id) ==
    IF rs = <<>> THEN <<>>
    ELSE (IF Get(Head(rs), "id") # recipe_id THEN <<Head(rs)>> ELSE <<>>)
         \o Without(Tail(rs), recipe_id)

delete_recipe(data, recipe_id) ==
    IF ~Has(data, "recipes") THEN Raises(data, "KeyError")
    ELSE LET rs == Get(data, "recipes").items
         IN IF \E i \in 1..Len(rs) : ~Has(rs[i], "id") THEN Raises(data, "KeyError")
            ELSE Outcome(DictSet(data, "recipes", List(Without(rs, recipe_id))), "None", TRUE)

------------------------------------------------------------------------------
(* RecipeManager._sync_to_github: what one call can do to the blob, for    *)
(* every way the GitHub calls can end.  requests are the calls made on the  *)
(* repository, ui is what the user is shown, fault is what went wrong.      *)

NoBlob == [exists |-> FALSE, text |-> <<>>]
BlobOf(text) == [exists |-> TRUE, text |-> text]

SyncResult(blob, requests, ui, fault) ==
    [remote |-> blob, requests |-> requests, ui |-> ui, fault |-> fault, ran |-> TRUE]
NoSync(blob) ==
    [remote |-> blob, requests |-> <<>>, ui |-> "none", fault |-> "none", ran |-> FALSE]

sync_to_github(blob, content) ==
    \* st.secrets[...], Github(token) or get_repo raises: the outer except
    {SyncResult(blob, <<>>, "warning", "setup")}
    \cup
    \* get_contents raises something that is no GithubException (the network)
    {SyncResult(blob, <<"get_contents">>, "warning", "network")}
    \cup
    \* get_contents raises a GithubException whose status is not 404: nothing is shown
    {SyncResult(blob, <<"get_contents">>, "none", "status")}
    \cup
    (IF ~blob.exists
     THEN \* get_contents raises 404; create_file succeeds, or raises
          {SyncResult(BlobOf(content), <<"get_contents", "create_file">>, "toast", "none"),
           SyncResult(blob, <<"get_contents", "create_file">>, "warning", "create")}
     ELSE \* get_contents returns; update_file succeeds, raises a GithubException
          \* whose status is not 404, raises 404 (and create_file then raises, the
          \* blob being there), or raises something else
          {SyncResult(BlobOf(content), <<"get_contents", "update_file">>, "none", "none"),
           SyncResult(blob, <<"get_contents", "update_file">>, "none", "status"),
           SyncResult(blob, <<"get_contents", "update_file", "create_file">>, "warning",
                      "create"),
           SyncResult(blob, <<"get_contents", "update_file">>, "warning", "network")})

\* RecipeManager.save_data: the text written to the file, and the ways the sync ends
save_data(data, configured, blob) ==
    LET json_str == json_dumps(data)
    IN [text |-> json_str,
        syncs |-> IF configured THEN sync_to_github(blob, json_str) ELSE {NoSync(blob)}]

------------------------------------------------------------------------------
(* Bounds and inputs *)

MaxCalls == 2     \* method calls made on managers in one run
MaxUuids == 1     \* uuid4() values one run draws
MaxLen == 3       \* length of the text fields of the generated documents

OTHER_FILE == "other.json"
FileNames == {DATA_FILE, OTHER_FILE}

UuidNames == <<"u1", "u2", "u3", "u4">>
Uuid(n) == Word(UuidNames[n])

\* the names typed into the folder form: empty, a built-in one, the same in
\* another case, and a new one
FolderInputs == {EmptyStr, Word("Washoku"), Word("washoku"), Word("X")}

\* the ids calls are made with: ids of stored and of created records, and one no record has
CallIds == {Word("r1"), Word("r2"), Word("zz")} \cup {Uuid(n) : n \in 1..MaxUuids}

IngredientColumns == <<"shokuzai", "bunryo">>
SeasoningColumns == <<"chomiryo", "bunryo">>
StepColumns == <<"tejun">>

\* what the methods are called with: rows left after the cleaning of the forms
\* (they keep their index), and rows as another caller hands them over
RecipeInputs ==
    { [title |-> Word("Curry"), folder |-> Word("Washoku"), rating |-> Num(0),
       ingredients_df |-> DataFrame(IngredientColumns, <<0, 2>>,
                                    << <<Word("pork"), Word("200g")>>,
                                       <<Word("onion"), None>> >>),
       seasonings_df |-> DataFrame(SeasoningColumns, <<>>, <<>>),
       steps_df |-> DataFrame(StepColumns, <<0, 1>>, << <<Word("cut")>>, <<Word("boil")>> >>)],
      [title |-> Word("Stew"), folder |-> Word("X"), rating |-> Num(5),
       ingredients_df |-> DataFrame(IngredientColumns, <<0, 1>>,
                                    << <<None, Word("1")>>, <<EmptyStr, EmptyStr>> >>),
       seasonings_df |-> DataFrame(SeasoningColumns, <<1>>, << <<Word("salt"), EmptyStr>> >>),
       steps_df |-> DataFrame(StepColumns, <<3>>, << <<Word("simmer")>> >>)] }

RatingInputs == {Num(4)}
LogTexts == {Word("less salt")}
Timestamps == {Word("2026-01-01 10:00"), Word("2026-01-01 10:01")}

\* Documents of earlier generations found on disk
LegacyRecipe ==
    Dict(<<"id", "title", "folder", "ingredients", "seasonings", "steps">>,
         <<Word("r1"), Word("Miso soup"), Word("Washoku"),
           Str(<<"tofu", Newline, Blank, "miso", Blank>>),
           List(<<Dict(SeasoningColumns, <<Word("dashi"), Word("1")>>)>>),
           Str(<<"boil", Newline, Newline, Blank, "mix", Newline>>)>>)

LoggedRecipe(id, title) ==
    NewRecipe(id, title, Word("Gone"), List(<<>>), List(<<>>),
              List(<<Dict(StepColumns, <<Word("fry")>>)>>), Num(3),
              List(<<Dict(<<"date", "text">>, <<Word("2025-12-31 09:00"), Word("good")>>)>>))

StoredDocuments ==
    { \* no "folders"; a record of the first generation (text fields, no rating,
      \* no logs), current ones, two records under one id
      Dict(<<"recipes">>,
           <<List(<<LegacyRecipe,
                    LoggedRecipe(Word("r2"), Word("Gyoza")),
                    LoggedRecipe(Word("r1"), Word("Tempura"))>>)>>),
      \* no "recipes"; a folder list of the user's own
      Dict(<<"folders">>, <<List(<<Word("X"), Word("Asia")>>)>>) }

\* a file cut off in the middle of a write
CorruptText == <<"{", Quote, "folders", Quote, ":", "[">>

InitialFiles == {NoFile, FileOf(CorruptText)} \cup {FileOf(json_dumps(d)) : d \in StoredDocuments}

------------------------------------------------------------------------------
(* The state *)

\* the processes that run the program against one GitHub repository
Writers == {"w1", "w2"}

\* what get_contents returns: the path and the sha of the blob (the sha names
\* the content, so it is modelled by the content), or the GithubException 404
NoMetadata == [found |-> FALSE, status |-> "none", path |-> "", sha |-> <<>>]
NotFound == [found |-> FALSE, status |-> "404", path |-> "", sha |-> <<>>]
Metadata(path, blob) == [found |-> TRUE, status |-> "200", path |-> path, sha |-> blob.text]

\* a process that has loaded no file and is not inside save_data
IdleWriter ==
    [pc |-> "idle", data |-> load_data(NoFile, BuiltinFolders).data, file |-> NoFile,
     content |-> <<>>, fetched |-> NoMetadata, requests |-> <<>>, ui |-> "none",
     fault |-> "none", saves |-> 0]

\* some record of the document has this id
HasId(data, recipe_id) ==
    /\ Has(data, "recipes")
    /\ \E i \in 1..Len(Get(data, "recipes").items) :
           Get(Get(data, "recipes").items[i], "id") = recipe_id

NoManager == [live |-> FALSE, filename |-> "", data |-> None, aliased |-> FALSE]

NoDocument == None

NoArgs == [none |-> TRUE]

\* a call that has ended: its arguments, what it returned or raised, the document
\* before it, whether save_data wrote the file, and how the sync went
Call(op, args, ret, pre, wrote, sync) ==
    [op |-> op, args |-> args, ret |-> ret, pre |-> pre, wrote |-> wrote,
     synced |-> sync.ran, requests |-> sync.requests, ui |-> sync.ui]

InitProcess ==
    /\ DEFAULT_FOLDERS = BuiltinFolders
    /\ remote = NoBlob
    /\ mgr = NoManager
    /\ uuids = 0
    /\ calls = 0
    /\ saved = [n \in FileNames |-> NoDocument]
    /\ last = Call("start", NoArgs, "None", None, FALSE, NoSync(remote))
    /\ writers = [w \in Writers |-> IdleWriter]
    /\ accepted = <<>>

Init ==
    /\ InitProcess
    /\ \E f \in InitialFiles :
           files = [n \in FileNames |-> IF n = DATA_FILE THEN f ELSE NoFile]
    /\ github \in BOOLEAN
    /\ network = "reliable"

\* RecipeManager(filename): __init__ calls _load_data
Construct(filename) ==
    \E loaded \in {load_data(files[filename], DEFAULT_FOLDERS)} :
    /\ mgr' = [live |-> TRUE, filename |-> filename, data |-> loaded.data,
               aliased |-> loaded.aliased]
    /\ last' = Call("load",
                    [filename |-> filename, found |-> loaded.found,
                     fresh |-> last.op \in {"start", "restart"}],
                    "None", None, FALSE, NoSync(remote))
    /\ UNCHANGED <<DEFAULT_FOLDERS, files, github, network, remote, uuids, calls, saved>>
    /\ UNCHANGED <<writers, accepted>>

\* the process ends and a new one starts: the module is loaded anew
Restart ==
    /\ last.op \notin {"start", "restart"}
    /\ DEFAULT_FOLDERS' = BuiltinFolders
    /\ mgr' = NoManager
    /\ last' = Call("restart", NoArgs, "None", None, FALSE, NoSync(remote))
    /\ UNCHANGED <<files, github, network, remote, uuids, calls, saved, writers, accepted>>

\* a method of the live manager ends with outcome `outcome`: the document is
\* the one it left, a list shared with DEFAULT_FOLDERS has changed for both,
\* and save_data has run if the method called it
Finish(op, args, outcome) ==
    /\ mgr.live
    /\ calls < MaxCalls
    /\ \E out \in {outcome} :
         /\ calls' = calls + 1
         /\ mgr' = [mgr EXCEPT !.data = out.data]
         /\ DEFAULT_FOLDERS' = IF mgr.aliased THEN Get(out.data, "folders")
                               ELSE DEFAULT_FOLDERS
         /\ IF out.save
            THEN \E s \in {save_data(out.data, github, remote)} :
                   /\ files' = [files EXCEPT ![mgr.filename] = FileOf(s.text)]
                   /\ saved' = [saved EXCEPT ![mgr.filename] = out.data]
                   /\ \E sync \in s.syncs :
                          /\ network = "reliable" => sync.fault = "none"
                          /\ remote' = sync.remote
                          /\ last' = Call(op, args, out.ret, mgr.data, TRUE, sync)
            ELSE /\ UNCHANGED <<files, saved, remote>>
                 /\ last' = Call(op, args, out.ret, mgr.data, FALSE, NoSync(remote))
    /\ UNCHANGED <<github, network, writers, accepted>>

AddFolder(folder_name) ==
    /\ Finish("add_folder", [folder_name |-> folder_name], add_folder(mgr.data, folder_name))
    /\ UNCHANGED uuids

AddRecipe(in) ==
    /\ uuids < MaxUuids
    /\ uuids' = uuids + 1
    /\ Finish("add_recipe", [id |-> Uuid(uuids + 1), in |-> in],
              add_recipe(mgr.data, Uuid(uuids + 1), in.title, in.folder, in.ingredients_df,
                         in.seasonings_df, in.steps_df, in.rating))

UpdateRecipe(recipe_id, in) ==
    /\ Finish("update_recipe", [id |-> recipe_id, in |-> in],
              update_recipe(mgr.data, recipe_id, in.title, in.folder, in.ingredients_df,
                            in.seasonings_df, in.steps_df, in.rating))
    /\ UNCHANGED uuids

UpdateRating(recipe_id, rating) ==
    /\ Finish("update_rating", [id |-> recipe_id, rating |-> rating],
              update_rating(mgr.data, recipe_id, rating))
    /\ UNCHANGED uuids

AddLog(recipe_id, log_text, now) ==
    /\ Finish("add_log", [id |-> recipe_id, log_text |-> log_text, now |-> now],
              add_log(mgr.data, recipe_id, log_text, now))
    /\ UNCHANGED uuids

DeleteRecipe(recipe_id) ==
    /\ Finish("delete_recipe", [id |-> recipe_id], delete_recipe(mgr.data, recipe_id))
    /\ UNCHANGED uuids

\* one run of the program on its data file
Next ==
    \/ Construct(DATA_FILE)
    \/ Restart
    \/ \E folder_name \in FolderInputs : AddFolder(folder_name)
    \/ \E in \in RecipeInputs : AddRecipe(in)
    \/ \E recipe_id \in CallIds, in \in RecipeInputs : UpdateRecipe(recipe_id, in)
    \/ \E recipe_id \in CallIds, rating \in RatingInputs : UpdateRating(recipe_id, rating)
    \/ \E recipe_id \in CallIds, log_text \in LogTexts, now \in Timestamps :
           AddLog(recipe_id, log_text, now)
    \/ \E recipe_id \in CallIds : DeleteRecipe(recipe_id)

Spec == Init /\ [][Next]_vars

------------------------------------------------------------------------------
(* Loading alone, on generated documents: one record carries a text of up   *)
(* to MaxLen symbols in one of its three fields, with or without a rating,  *)
(* next to a record of the first generation, under each stored folder list  *)

Alphabet == {"a", "b", Blank, Newline}

RECURSIVE TextsOfLen(_)
TextsOfLen(n) ==
    IF n = 0 THEN {<<>>}
    ELSE {Append(t, c) : t \in TextsOfLen(n - 1), c \in Alphabet}

Texts == UNION {TextsOfLen(n) : n \in 0..MaxLen}

TextFields == {"steps", "ingredients", "seasonings"}

CurrentRecipe(rated) ==
    LET r == Dict(<<"id", "title", "folder", "ingredients", "seasonings", "steps", "logs">>,
                  <<Word("r2"), Word("Gyoza"), Word("Chinese"),
                    List(<<Dict(IngredientColumns, <<Word("pork"), None>>)>>),
                    List(<<>>),
                    List(<<Dict(StepColumns, <<Str(<<Blank, "fry">>)>>)>>),
                    List(<<>>)>>)
    IN IF rated THEN DictSet(r, "rating", Num(3)) ELSE r

GeneratedRecipes ==
    {DictSet(CurrentRecipe(rated), field, Str(text)) :
        rated \in BOOLEAN, field \in TextFields, text \in Texts}

StoredFolderLists ==
    { <<>>,
      <<Word("Uncategorized"), Word("Washoku")>>,
      <<Word("X"), Word("Asia"), Word("X"), Word("Washoku")>> }

GeneratedDocuments ==
    {Dict(<<"recipes">>, <<List(<<g, LegacyRecipe>>)>>) : g \in GeneratedRecipes}
    \cup {Dict(<<"folders", "recipes">>, <<List(F), List(<<LegacyRecipe, g>>)>>) :
             F \in StoredFolderLists, g \in GeneratedRecipes}

InitMigrate ==
    /\ InitProcess
    /\ \E d \in GeneratedDocuments :
           files = [n \in FileNames |-> IF n = DATA_FILE THEN FileOf(json_dumps(d)) ELSE NoFile]
    /\ github = FALSE
    /\ network = "reliable"

NextMigrate == Construct(DATA_FILE)

SpecMigrate == InitMigrate /\ [][NextMigrate]_vars

------------------------------------------------------------------------------
(* Managers on two files in one process, and the folder form *)

NextFolders ==
    \/ \E filename \in FileNames : Construct(filename)
    \/ Restart
    \/ \E folder_name \in FolderInputs : AddFolder(folder_name)

SpecFolders == Init /\ [][NextFolders]_vars

------------------------------------------------------------------------------
(* main, the list page: filtering and sorting.  The texts of the documents  *)
(* searched are spelled one character a symbol.  The labels of the page     *)
(* are written in English: "Subete" = すべて, "newest" = 登録が新しい順,        *)
(* "rating_desc" = 評価が高い順, "rating_asc" = 評価が低い順,                    *)
(* "oldest" = 登録が古い順.                                                   *)

UpperLetters == <<"A", "B", "C", "N", "P", "Q", "Z">>
LowerLetters == <<"a", "b", "c", "n", "p", "q", "z">>

\* str.lower(), character by character
LowerChar(c) ==
    IF \E k \in 1..Len(UpperLetters) : UpperLetters[k] = c
    THEN LowerLetters[CHOOSE k \in 1..Len(UpperLetters) : UpperLetters[k] = c]
    ELSE c
lower(s) == [i \in 1..Len(s) |-> LowerChar(s[i])]

\* sub in text, for two str
Contains(text, sub) ==
    \E i \in 0..(Len(text) - Len(sub)) : SubSeq(text, i + 1, i + Len(sub)) = sub

\* str(x) of the values an ingredient name or a legacy field can be
PyStr(v) ==
    CASE v.t = "str"  -> v.s
      [] v.t = "null" -> <<"N", "o", "n", "e">>
      [] v.t = "num"  -> Decimal(v.n)

\* " ".join(parts)
RECURSIVE Join(_)
Join(parts) ==
    IF parts = <<>> THEN <<>>
    ELSE IF Len(parts) = 1 THEN Head(parts)
    ELSE Head(parts) \o <<Blank>> \o Join(Tail(parts))

ALL_FOLDERS == Word("Subete")

\* the text the search looks into, besides the title
IngredientText(r) ==
    LET ing_data == GetOr(r, "ingredients", List(<<>>))
    IN IF IsList(ing_data)
       THEN Join([i \in 1..Len(ing_data.items) |->
                     PyStr(GetOr(ing_data.items[i], "shokuzai", EmptyStr))])
       ELSE PyStr(ing_data)

IsFolderMatch(r, selected_folder) ==
    selected_folder = ALL_FOLDERS \/ Get(r, "folder") = selected_folder

IsWordMatch(r, search_query) ==
    IF Truthy(search_query)
    THEN LET query == lower(search_query.s)
         IN \/ Contains(lower(Get(r, "title").s), query)
            \/ Contains(lower(IngredientText(r)), query)
    ELSE TRUE

RECURSIVE filter_recipes(_, _, _)
filter_recipes(recipes, selected_folder, search_query) ==
    IF recipes = <<>> THEN <<>>
    ELSE (IF IsFolderMatch(Head(recipes), selected_folder)
             /\ IsWordMatch(Head(recipes), search_query)
          THEN <<Head(recipes)>> ELSE <<>>)
         \o filter_recipes(Tail(recipes), selected_folder, search_query)

\* list.reverse()
Reversed(l) == [i \in 1..Len(l) |-> l[Len(l) + 1 - i]]

\* key=lambda x: x.get("rating", 0)
RatingKey(x) == GetOr(x, "rating", Num(0)).n

\* list.sort(key=..., reverse=...): a stable sort, records of equal key stay in
\* the order they had, also with reverse=True
RECURSIVE SortedByRating(_, _)
SortedByRating(l, reverse) ==
    IF l = <<>> THEN <<>>
    ELSE LET x == l[Len(l)]
             before == SortedByRating(SubSeq(l, 1, Len(l) - 1), reverse)
             \* x goes after every record that may stay in front of it
             Stays(y) == IF reverse THEN RatingKey(y) >= RatingKey(x)
                         ELSE RatingKey(y) <= RatingKey(x)
             n == Cardinality({i \in 1..Len(before) : Stays(before[i])})
         IN SubSeq(before, 1, n) \o <<x>> \o SubSeq(before, n + 1, Len(before))

\* a faulty variant: descending is the ascending order reversed
sort_recipes_unstable(filtered_recipes, sort_order) ==
    CASE sort_order = "newest"      -> Reversed(filtered_recipes)
      [] sort_order = "oldest"      -> filtered_recipes
      [] sort_order = "rating_desc" -> Reversed(SortedByRating(filtered_recipes, FALSE))
      [] sort_order = "rating_asc"  -> SortedByRating(filtered_recipes, FALSE)

sort_recipes(filtered_recipes, sort_order) ==
    CASE sort_order = "newest"      -> Reversed(filtered_recipes)
      [] sort_order = "oldest"      -> filtered_recipes
      [] sort_order = "rating_desc" -> SortedByRating(filtered_recipes, TRUE)
      [] sort_order = "rating_asc"  -> SortedByRating(filtered_recipes, FALSE)

SortOrders == {"newest", "rating_desc", "rating_asc", "oldest"}

\* the records searched: names in two rows, a null name, text fields of the
\* first generation and no rating, texts that are in steps and seasonings only
QueryRecord(id, title, folder, ingredients, rating) ==
    NewRecipe(Word(id), Str(title), Word(folder), ingredients,
              List(<<Dict(SeasoningColumns, <<Str(<<"q">>), EmptyStr>>)>>),
              List(<<Dict(StepColumns, <<Str(<<"z", "a", "p">>)>>)>>),
              Num(rating), List(<<>>))

QueryRecords ==
    { QueryRecord("r1", <<"A", "b">>, "Washoku",
                  List(<<Dict(IngredientColumns, <<Str(<<"p", "a">>), EmptyStr>>),
                         Dict(IngredientColumns, <<Str(<<"b">>), Str(<<"c">>)>>)>>), 3),
      QueryRecord("r2", <<"b", "a">>, "Yoshoku",
                  List(<<Dict(IngredientColumns, <<None, Str(<<"c">>)>>)>>), 3),
      Dict(<<"id", "title", "folder", "ingredients", "seasonings", "steps">>,
           <<Word("r3"), Str(<<"c">>), Word("Washoku"),
             Str(<<"B", Blank, "a", Newline, Blank, "q">>), Str(<<"z">>), Str(<<"n">>)>>),
      QueryRecord("r4", <<"Q">>, "Washoku", List(<<>>), 5) }

MaxRecords == 3   \* records in a document searched

RECURSIVE SeqsOfLen(_)
SeqsOfLen(n) ==
    IF n = 0 THEN {<<>>}
    ELSE {Append(s, r) : s \in SeqsOfLen(n - 1), r \in QueryRecords}

QueryDocuments ==
    {Dict(<<"folders", "recipes">>, <<BuiltinFolders, List(s)>>) :
        s \in {q \in UNION {SeqsOfLen(n) : n \in 0..MaxRecords} :
                  \A i, j \in 1..Len(q) : q[i] = q[j] => i = j}}

FolderChoices == {ALL_FOLDERS, Word("Washoku"), Word("Chinese")}

SearchTexts ==
    {Str(t) : t \in {<<>>, <<"a">>, <<"B">>, <<"a", Blank, "b">>, <<"z">>, <<"q">>,
                     <<"n", "o", "n", "e">>}}

\* one run of the list page: the widgets' values, the filter, the sort
Query(selected_folder, search_query, sort_order) ==
    /\ mgr.live
    /\ \E filtered_recipes \in {filter_recipes(Get(mgr.data, "recipes").items,
                                               selected_folder, search_query)} :
         last' = Call("query",
                      [selected_folder |-> selected_folder, search_query |-> search_query,
                       sort_order |-> sort_order],
                      [filtered |-> filtered_recipes,
                       shown |-> sort_recipes(filtered_recipes, sort_order)],
                      mgr.data, FALSE, NoSync(remote))
    /\ UNCHANGED <<DEFAULT_FOLDERS, files, github, network, remote, mgr, uuids, calls,
                   saved, writers, accepted>>

InitQuery ==
    /\ InitProcess
    /\ \E d \in QueryDocuments :
           files = [n \in FileNames |-> IF n = DATA_FILE THEN FileOf(json_dumps(d)) ELSE NoFile]
    /\ github = FALSE
    /\ network = "reliable"

NextQuery ==
    \/ Construct(DATA_FILE)
    \/ \E selected_folder \in FolderChoices, search_query \in SearchTexts,
          sort_order \in SortOrders :
           Query(selected_folder, search_query, sort_order)

SpecQuery == InitQuery /\ [][NextQuery]_vars

------------------------------------------------------------------------------
(* main, the registration form and the edit form: what the data editors    *)
(* hold is cleaned and handed to add_recipe / update_recipe.                *)

\* df[df[column].notna() & (df[column] != "")]: the rows kept keep their index
Kept(df, column) ==
    LET c == CHOOSE k \in 1..Len(df.columns) : df.columns[k] = column
    IN {i \in 1..Len(df.rows) : df.rows[i][c] # None /\ df.rows[i][c] # EmptyStr}

RECURSIVE Pick(_, _, _)
Pick(s, keep, i) ==
    IF i > Len(s) THEN <<>>
    ELSE (IF i \in keep THEN <<s[i]>> ELSE <<>>) \o Pick(s, keep, i + 1)

clean(df, column) ==
    DataFrame(df.columns, Pick(df.index, Kept(df, column), 1), Pick(df.rows, Kept(df, column), 1))

\* the registration form is submitted
submit_new(data, uuid, form) ==
    IF Truthy(form.title)
    THEN LET clean_ingredients == clean(form.ingredients_df, "shokuzai")
             clean_seasonings == clean(form.seasonings_df, "chomiryo")
             clean_steps == clean(form.steps_df, "tejun")
         IN IF clean_steps.rows = <<>>
            THEN Outcome(data, "error", FALSE)
            ELSE add_recipe(data, uuid, form.title, form.folder, clean_ingredients,
                            clean_seasonings, clean_steps, form.rating)
    ELSE Outcome(data, "error", FALSE)

\* the edit form of the record recipe_id is submitted
submit_update(data, recipe_id, form) ==
    IF Truthy(form.title)
    THEN update_recipe(data, recipe_id, form.title, form.folder,
                       clean(form.ingredients_df, "shokuzai"),
                       clean(form.seasonings_df, "chomiryo"),
                       clean(form.steps_df, "tejun"), form.rating)
    ELSE Outcome(data, "error", FALSE)

\* what the editors can hold at a submit: a title or none, steps or blank rows
\* only, ingredient and seasoning rows with and without a name
FormTitles == {EmptyStr, Word("Curry"), Word("Stew")}
FormSteps ==
    { DataFrame(StepColumns, <<0, 1>>, << <<EmptyStr>>, <<None>> >>),
      DataFrame(StepColumns, <<0, 1, 2>>, << <<Word("cut")>>, <<EmptyStr>>, <<Word("boil")>> >>) }
FormIngredients ==
    { DataFrame(IngredientColumns, <<0>>, << <<EmptyStr, EmptyStr>> >>),
      DataFrame(IngredientColumns, <<0, 1, 2>>,
                << <<None, Word("1")>>, <<Word("pork"), None>>, <<EmptyStr, Word("2")>> >>) }

Forms ==
    {[title |-> t, folder |-> Word("Washoku"), rating |-> Num(0), ingredients_df |-> i,
      seasonings_df |-> DataFrame(SeasoningColumns, <<0, 1>>,
                                  << <<None, EmptyStr>>, <<Word("salt"), EmptyStr>> >>),
      steps_df |-> s] : t \in FormTitles, i \in FormIngredients, s \in FormSteps}

SubmitNew(form) ==
    /\ uuids < MaxUuids
    /\ mgr.live
    /\ \E out \in {submit_new(mgr.data, Uuid(uuids + 1), form)} :
         /\ uuids' = IF out.ret = "error" THEN uuids ELSE uuids + 1
         /\ Finish("submit_new", [id |-> Uuid(uuids + 1), form |-> form], out)

\* the edit form is opened on a record that is listed
SubmitUpdate(recipe_id, form) ==
    /\ mgr.live
    /\ HasId(mgr.data, recipe_id)
    /\ Finish("submit_update", [id |-> recipe_id, form |-> form],
              submit_update(mgr.data, recipe_id, form))
    /\ UNCHANGED uuids

InitForms ==
    /\ InitProcess
    /\ files = [n \in FileNames |-> NoFile]
    /\ github \in BOOLEAN
    /\ network = "reliable"

NextForms ==
    \/ Construct(DATA_FILE)
    \/ \E form \in Forms : SubmitNew(form)
    \/ \E recipe_id \in CallIds, form \in Forms : SubmitUpdate(recipe_id, form)

SpecForms == InitForms /\ [][NextForms]_vars

------------------------------------------------------------------------------
(* Two processes saving to one GitHub repository.  save_data and            *)
(* _sync_to_github are taken one call to GitHub at a time, so that the      *)
(* calls of the two processes interleave; each process has its own local    *)
(* file and its own document.                                               *)

MaxSaves == 1     \* saves one process makes

\* the names the two processes add
WriterFolders == {Word("X"), Word("washoku")}

\* the ways a call to GitHub can fail for reasons of its own on a faulty
\* network: "setup" a raise from st.secrets, Github() or get_repo; "status" a
\* GithubException whose status is not 404 (401, 403); "not_found" a
\* GithubException 404 from update_file; "network" any other exception
Faults(call) ==
    IF network = "reliable" THEN {"none"}
    ELSE CASE call = "get_repo"     -> {"none", "setup"}
           [] call = "get_contents" -> {"none", "status", "network"}
           [] call = "update_file"  -> {"none", "status", "not_found", "network"}
           [] call = "create_file"  -> {"none", "status", "network"}

\* the replies of the repository to the three calls
get_contents(blob, path) == IF blob.exists THEN Metadata(path, blob) ELSE NotFound

\* a faulty variant: the repository takes an update whatever sha comes with it
update_file_unchecked(blob, sha) == IF ~blob.exists THEN "404" ELSE "ok"

update_file(blob, sha) ==
    IF ~blob.exists THEN "404"
    ELSE IF sha = blob.text THEN "ok"
    ELSE "409"

create_file(blob) == IF blob.exists THEN "422" ELSE "ok"

Request(call, path, sha, content) ==
    [call |-> call, path |-> path, sha |-> sha, content |-> content]

Asked(wr, request) == [wr EXCEPT !.requests = Append(@, request)]

\* a faulty variant: the update names the file and carries no sha of the fetch
UpdateRequestByName(wr) == Request("update_file", DATA_FILE, <<>>, wr.content)

\* the arguments of the two write calls
UpdateRequest(wr) == Request("update_file", wr.fetched.path, wr.fetched.sha, wr.content)
CreateRequest(wr) == Request("create_file", DATA_FILE, <<>>, wr.content)

\* a faulty variant: a sync that failed takes the local file back
EndSyncRollingBack(wr, ui, fault) ==
    [wr EXCEPT !.pc = "idle", !.ui = ui, !.fault = fault,
               !.file = IF fault = "none" THEN @ ELSE NoFile]

\* _sync_to_github returns: after its last call, or from one of its except clauses
EndSync(wr, ui, fault) == [wr EXCEPT !.pc = "idle", !.ui = ui, !.fault = fault]

Accept(w, request, blob) ==
    Append(accepted, [by |-> w, call |-> request.call, sha |-> request.sha,
                      content |-> request.content, held |-> blob])

\* add_folder up to the end of the local write of save_data
SaveLocal(w, folder_name) ==
    /\ writers[w].pc = "idle"
    /\ writers[w].saves < MaxSaves
    /\ \E out \in {add_folder(writers[w].data, folder_name)} :
         /\ out.save
         /\ \E json_str \in {json_dumps(out.data)} :
              writers' = [writers EXCEPT ![w] =
                            [pc |-> IF github THEN "secrets" ELSE "idle",
                             data |-> out.data, file |-> FileOf(json_str),
                             content |-> json_str, fetched |-> NoMetadata,
                             requests |-> <<>>, ui |-> "none", fault |-> "none",
                             saves |-> @.saves + 1]]
    /\ UNCHANGED <<DEFAULT_FOLDERS, files, github, network, remote, mgr, uuids, calls,
                   saved, last, accepted>>

\* st.secrets["github"], Github(token), get_repo(repo_name)
GetRepo(w) ==
    /\ writers[w].pc = "secrets"
    /\ \E f \in Faults("get_repo") :
         writers' = [writers EXCEPT ![w] =
                       IF f = "none" THEN [@ EXCEPT !.pc = "get_contents"]
                       ELSE EndSync(@, "warning", f)]
    /\ UNCHANGED <<DEFAULT_FOLDERS, files, github, network, remote, mgr, uuids, calls,
                   saved, last, accepted>>

\* repo.get_contents(remote_file_path, ref=branch)
GetContents(w) ==
    /\ writers[w].pc = "get_contents"
    /\ \E f \in Faults("get_contents") :
         LET wr == Asked(writers[w], Request("get_contents", DATA_FILE, <<>>, <<>>))
             contents == get_contents(remote, DATA_FILE)
         IN writers' = [writers EXCEPT ![w] =
                CASE f = "status"  -> EndSync(wr, "none", f)
                  [] f = "network" -> EndSync(wr, "warning", f)
                  [] f = "none" /\ contents.found ->
                         [wr EXCEPT !.pc = "update_file", !.fetched = contents]
                  [] f = "none" /\ ~contents.found ->
                         [wr EXCEPT !.pc = "create_file", !.fetched = contents]]
    /\ UNCHANGED <<DEFAULT_FOLDERS, files, github, network, remote, mgr, uuids, calls,
                   saved, last, accepted>>

\* repo.update_file(path=contents.path, content=content, sha=contents.sha, ...)
UpdateFile(w) ==
    /\ writers[w].pc = "update_file"
    /\ \E f \in Faults("update_file") :
         LET request == UpdateRequest(writers[w])
             wr == Asked(writers[w], request)
             reply == IF f = "none" THEN update_file(remote, request.sha) ELSE f
         IN /\ writers' = [writers EXCEPT ![w] =
                   CASE reply = "ok"  -> EndSync(wr, "none", "none")
                     [] reply = "409" -> EndSync(wr, "none", "stale")
                     [] reply \in {"404", "not_found"} -> [wr EXCEPT !.pc = "create_file"]
                     [] reply = "status"  -> EndSync(wr, "none", f)
                     [] reply = "network" -> EndSync(wr, "warning", f)]
            /\ remote' = IF reply = "ok" THEN BlobOf(request.content) ELSE remote
            /\ accepted' = IF reply = "ok" THEN Accept(w, request, remote) ELSE accepted
    /\ UNCHANGED <<DEFAULT_FOLDERS, files, github, network, mgr, uuids, calls, saved, last>>

\* repo.create_file(path=remote_file_path, content=content, ...) in the handler of
\* the GithubException 404; what it raises goes to the outer except clause
CreateFile(w) ==
    /\ writers[w].pc = "create_file"
    /\ \E f \in Faults("create_file") :
         LET request == CreateRequest(writers[w])
             wr == Asked(writers[w], request)
             reply == IF f = "none" THEN create_file(remote) ELSE f
         IN /\ writers' = [writers EXCEPT ![w] =
                   IF reply = "ok" THEN EndSync(wr, "toast", "none")
                   ELSE EndSync(wr, "warning", IF reply = "422" THEN "create" ELSE f)]
            /\ remote' = IF reply = "ok" THEN BlobOf(request.content) ELSE remote
            /\ accepted' = IF reply = "ok" THEN Accept(w, request, remote) ELSE accepted
    /\ UNCHANGED <<DEFAULT_FOLDERS, files, github, network, mgr, uuids, calls, saved, last>>

\* the blob another save has left in the repository
SeedBlob == BlobOf(json_dumps(IdleWriter.data))

InitSync ==
    /\ DEFAULT_FOLDERS = BuiltinFolders
    /\ files = [n \in FileNames |-> NoFile]
    /\ github \in BOOLEAN
    /\ network \in {"reliable", "faulty"}
    /\ remote \in {NoBlob, SeedBlob}
    /\ mgr = NoManager
    /\ uuids = 0
    /\ calls = 0
    /\ saved = [n \in FileNames |-> NoDocument]
    /\ last = Call("start", NoArgs, "None", None, FALSE, NoSync(NoBlob))
    /\ writers = [w \in Writers |-> IdleWriter]
    /\ accepted = <<>>

NextSync ==
    \E w \in Writers :
        \/ \E folder_name \in WriterFolders : SaveLocal(w, folder_name)
        \/ GetRepo(w)
        \/ GetContents(w)
        \/ UpdateFile(w)
        \/ CreateFile(w)

SpecSync == InitSync /\ [][NextSync]_vars

------------------------------------------------------------------------------
(* Vocabulary of the properties *)

Recipes(data) == IF Has(data, "recipes") THEN Get(data, "recipes").items ELSE <<>>
Folders(data) == IF Has(data, "folders") THEN Get(data, "folders").items ELSE <<>>

\* the log entries of a record, none for a record without "logs"
LogsOf(recipe) == IF Has(recipe, "logs") THEN Get(recipe, "logs").items ELSE <<>>

\* positions of the records with this id
Positions(data, id) ==
    {i \in 1..Len(Recipes(data)) :
        Has(Recipes(data)[i], "id") /\ Get(Recipes(data)[i], "id") = id}

HasRecord(data, id) == Positions(data, id) # {}

FirstPosition(data, id) ==
    CHOOSE i \in Positions(data, id) : \A j \in Positions(data, id) : i <= j

\* value is the list of the rows of df: one dict per row, a key per column
IsRowsOf(value, df) ==
    /\ IsList(value)
    /\ Len(value.items) = Len(df.rows)
    /\ \A r \in 1..Len(df.rows) :
           /\ value.items[r].t = "obj"
           /\ value.items[r].keys = df.columns
           /\ \A c \in 1..Len(df.columns) :
                  Get(value.items[r], df.columns[c]) = df.rows[r][c]

IsMethodCall == last.op \in {"add_folder", "add_recipe", "update_recipe", "update_rating",
                             "add_log", "delete_recipe"}

\* the document stored in the file of the live manager
StoredDocument == json_load(files[mgr.filename].text).v

LoadedFromFile == last.op = "load" /\ last.args.found = "decoded"

------------------------------------------------------------------------------
(* C1: update_recipe on an id that exists returns True; the (first) record   *)
(* with that id keeps its id and its log entries, in their order, and its    *)
(* title, folder, ingredients, seasonings, steps and rating are the values   *)
(* supplied; so log entries appended before the update are as they were.     *)
C1_UpdateKeepsIdAndLogs ==
    (last.op = "update_recipe" /\ HasRecord(last.pre, last.args.id)) =>
        LET i == FirstPosition(last.pre, last.args.id)
            before == Recipes(last.pre)[i]
            in == last.args.in
        IN /\ last.ret = "True"
           /\ Len(Recipes(mgr.data)) = Len(Recipes(last.pre))
           /\ LET after == Recipes(mgr.data)[i]
              IN /\ Get(after, "id") = Get(before, "id")
                 /\ LogsOf(after) = LogsOf(before)
                 /\ Get(after, "title") = in.title
                 /\ Get(after, "folder") = in.folder
                 /\ Get(after, "rating") = in.rating
                 /\ IsRowsOf(Get(after, "ingredients"), in.ingredients_df)
                 /\ IsRowsOf(Get(after, "seasonings"), in.seasonings_df)
                 /\ IsRowsOf(Get(after, "steps"), in.steps_df)

\* an update of a record that had a stored log entry and one appended by add_log,
\* and whose title the update changed
C1_Witness ==
    /\ last.op = "update_recipe"
    /\ last.ret = "True"
    /\ HasRecord(last.pre, last.args.id)
    /\ LET i == FirstPosition(last.pre, last.args.id)
       IN /\ Len(LogsOf(Recipes(last.pre)[i])) = 2
          /\ Get(Recipes(last.pre)[i], "title") # last.args.in.title

------------------------------------------------------------------------------
(* C2: a manager constructed on a file by a new process holds the document   *)
(* that was in memory when the file was last saved; and the file left by     *)
(* add_recipe loads, in a new process, to a document whose last record has   *)
(* the title, ingredients and steps given and no log entries.                *)
C2_SaveLoadRoundTrip ==
    /\ (last.op = "load" /\ last.args.fresh /\ saved[mgr.filename] # NoDocument) =>
           mgr.data = saved[mgr.filename]
    /\ (last.op = "add_recipe" /\ last.ret = "None") =>
           LET reloaded == load_data(files[mgr.filename], BuiltinFolders).data
               n == Len(Recipes(reloaded))
               in == last.args.in
           IN /\ n = Len(Recipes(last.pre)) + 1
              /\ Get(Recipes(reloaded)[n], "id") = last.args.id
              /\ Get(Recipes(reloaded)[n], "title") = in.title
              /\ IsRowsOf(Get(Recipes(reloaded)[n], "ingredients"), in.ingredients_df)
              /\ IsRowsOf(Get(Recipes(reloaded)[n], "steps"), in.steps_df)
              /\ Get(Recipes(reloaded)[n], "logs") = List(<<>>)

\* a new process has loaded a file that a manager saved after add_recipe, the
\* document holding a record of an earlier generation as well
C2_Witness ==
    /\ last.op = "load"
    /\ last.args.fresh
    /\ saved[mgr.filename] # NoDocument
    /\ HasRecord(mgr.data, Uuid(1))
    /\ HasRecord(mgr.data, Word("r1"))

------------------------------------------------------------------------------
(* C3: loading converts, in each record by itself, a steps, ingredients or   *)
(* seasonings field that is a text into the list of its non-empty trimmed    *)
(* lines, in line order (an ingredient or seasoning with an empty amount);   *)
(* a field that is a list stays as it is; a missing rating becomes 0; every  *)
(* other field stays, and none is removed.                                   *)

\* the positions at which a line of text s starts
LineStarts(s) == {i \in 1..(Len(s) + 1) : i = 1 \/ s[i - 1] = Newline}
\* the position after the line that starts at i
LineEnd(s, i) ==
    CHOOSE j \in i..(Len(s) + 1) :
        /\ j = Len(s) + 1 \/ s[j] = Newline
        /\ \A k \in i..(j - 1) : s[k] # Newline
\* the symbols of that line that are no white space
Inked(s, i) == {k \in i..(LineEnd(s, i) - 1) : s[k] \notin Whitespace}
\* the line from its first to its last symbol that is no white space
Trimmed(s, i) ==
    LET first == CHOOSE k \in Inked(s, i) : \A m \in Inked(s, i) : k <= m
        final == CHOOSE k \in Inked(s, i) : \A m \in Inked(s, i) : k >= m
    IN SubSeq(s, first, final)
InkedStarts(s) == {i \in LineStarts(s) : Inked(s, i) # {}}
NthInkedStart(s, n) ==
    CHOOSE i \in InkedStarts(s) : Cardinality({j \in InkedStarts(s) : j < i}) = n - 1

\* value is the list of the non-empty trimmed lines of s, in order, each the
\* first cell of a row with these keys, the other cells empty
IsLinesOf(value, s, keys) ==
    /\ IsList(value)
    /\ Len(value.items) = Cardinality(InkedStarts(s))
    /\ \A n \in 1..Len(value.items) :
           /\ value.items[n].t = "obj"
           /\ value.items[n].keys = keys
           /\ value.items[n].vals[1] = Str(Trimmed(s, NthInkedStart(s, n)))
           /\ value.items[n].vals[1] # EmptyStr
           /\ \A c \in 2..Len(keys) : value.items[n].vals[c] = EmptyStr

RowKeys(field) ==
    CASE field = "steps" -> StepColumns
      [] field = "ingredients" -> IngredientColumns
      [] field = "seasonings" -> SeasoningColumns

IsMigrated(stored, loaded) ==
    /\ \A field \in TextFields :
           IF Has(stored, field) /\ IsStr(Get(stored, field))
           THEN Has(loaded, field)
                /\ IsLinesOf(Get(loaded, field), Get(stored, field).s, RowKeys(field))
           ELSE Has(loaded, field) = Has(stored, field)
                /\ (Has(stored, field) => Get(loaded, field) = Get(stored, field))
    /\ Has(loaded, "rating")
    /\ Get(loaded, "rating") = (IF Has(stored, "rating") THEN Get(stored, "rating") ELSE Num(0))
    /\ \A k \in 1..Len(stored.keys) :
           stored.keys[k] \notin TextFields =>
               Has(loaded, stored.keys[k])
               /\ Get(loaded, stored.keys[k]) = Get(stored, stored.keys[k])
    /\ \A k \in 1..Len(loaded.keys) :
           Has(stored, loaded.keys[k]) \/ loaded.keys[k] = "rating"

C3_MigrationPerRecord ==
    LoadedFromFile =>
        /\ Len(Recipes(mgr.data)) = Len(Recipes(StoredDocument))
        /\ \A i \in 1..Len(Recipes(StoredDocument)) :
               IsMigrated(Recipes(StoredDocument)[i], Recipes(mgr.data)[i])

\* a loaded document one record of which had three lines of steps, the middle
\* one blank, and no rating, the other record being of the first generation
C3_Witness ==
    /\ LoadedFromFile
    /\ \E i \in 1..Len(Recipes(StoredDocument)) :
           /\ Get(Recipes(StoredDocument)[i], "steps") = Str(<<"a", Newline, Blank>>)
           /\ ~Has(Recipes(StoredDocument)[i], "rating")
           /\ Get(Recipes(mgr.data)[i], "steps") = List(<<Dict(<<"tejun">>, <<Word("a")>>)>>)
           /\ Get(Recipes(mgr.data)[i], "rating") = Num(0)
    /\ \E i \in 1..Len(Recipes(mgr.data)) :
           Len(Get(Recipes(mgr.data)[i], "steps").items) = 2

------------------------------------------------------------------------------
(* C4: normalizing (migration, then folder reconciliation) the document that *)
(* normalizing produced gives that document again, and so the same text.     *)
C4_NormalizeIdempotent ==
    LoadedFromFile =>
        /\ LoadDecoded(mgr.data, DEFAULT_FOLDERS) = mgr.data
        /\ json_dumps(LoadDecoded(mgr.data, DEFAULT_FOLDERS)) = json_dumps(mgr.data)

\* a load that changed the stored document: records and folders were rewritten
C4_Witness ==
    /\ LoadedFromFile
    /\ Recipes(mgr.data) # Recipes(StoredDocument)
    /\ Folders(StoredDocument) # <<>>
    /\ Folders(mgr.data) # Folders(StoredDocument)

------------------------------------------------------------------------------
(* C5: after a load that decoded the file, the folder list is the stored     *)
(* list, unchanged, followed by exactly the built-in categories it lacks,    *)
(* in their canonical order, each once.                                      *)
BuiltinPosition(name) ==
    CHOOSE p \in 1..Len(BuiltinFolders.items) : BuiltinFolders.items[p] = name

C5_FolderReconciliation ==
    LoadedFromFile =>
        LET stored == Folders(StoredDocument)
            loaded == Folders(mgr.data)
            lacking == {p \in 1..Len(BuiltinFolders.items) :
                           \A i \in 1..Len(stored) : stored[i] # BuiltinFolders.items[p]}
        IN /\ Len(loaded) = Len(stored) + Cardinality(lacking)
           /\ SubSeq(loaded, 1, Len(stored)) = stored
           /\ \A k \in (Len(stored) + 1)..Len(loaded) :
                  /\ InList(loaded[k], BuiltinFolders)
                  /\ BuiltinPosition(loaded[k]) \in lacking
                  /\ \A m \in (Len(stored) + 1)..(k - 1) :
                         BuiltinPosition(loaded[m]) < BuiltinPosition(loaded[k])

------------------------------------------------------------------------------
(* C6: a load that finds no file, or a file that does not decode, gives the  *)
(* default document: the built-in folder list exactly, and no records.       *)
C6_FallbackIsDefault ==
    (last.op = "load" /\ last.args.found \in {"absent", "corrupt"}) =>
        /\ Folders(mgr.data) = BuiltinFolders.items
        /\ Has(mgr.data, "recipes")
        /\ Recipes(mgr.data) = <<>>

------------------------------------------------------------------------------
(* C7: add_folder with a name that is empty or in the folder list (compared  *)
(* exactly) returns False, changes nothing and saves nothing; with any other *)
(* name it appends the name to the folder list, changes nothing else, saves  *)
(* (the file is written, the mirror synced if there is one), returns True.   *)
C7_AddFolderContract ==
    last.op = "add_folder" =>
        LET name == last.args.folder_name
            before == Folders(last.pre)
        IN IF name = EmptyStr \/ \E i \in 1..Len(before) : before[i] = name
           THEN /\ last.ret = "False"
                /\ mgr.data = last.pre
                /\ ~last.wrote
                /\ ~last.synced
           ELSE /\ last.ret = "True"
                /\ Folders(mgr.data) = Append(before, name)
                /\ mgr.data.keys = last.pre.keys
                /\ \A k \in 1..Len(last.pre.keys) :
                       last.pre.keys[k] # "folders" => mgr.data.vals[k] = last.pre.vals[k]
                /\ last.wrote
                /\ last.synced = github

\* "washoku" was added to a document that has "Washoku" and has records, and
\* the save went to the mirror
C7_Witness ==
    /\ last.op = "add_folder"
    /\ last.ret = "True"
    /\ last.args.folder_name = Word("washoku")
    /\ InList(Word("Washoku"), Get(last.pre, "folders"))
    /\ Recipes(last.pre) # <<>>
    /\ last.synced

------------------------------------------------------------------------------
(* C8: update_recipe, update_rating and add_log with an id that no record    *)
(* has return False, leave the document as it was, and save nothing.         *)
C8_NotFoundReturnsFalse ==
    (last.op \in {"update_recipe", "update_rating", "add_log"}
     /\ ~HasRecord(last.pre, last.args.id)) =>
        /\ last.ret = "False"
        /\ mgr.data = last.pre
        /\ ~last.wrote
        /\ ~last.synced

------------------------------------------------------------------------------
(* C9: delete_recipe returns without error; with an id that no record has,   *)
(* the records are as they were; with an id that some have, exactly those    *)
(* are gone and the others, in their order, and the folders are as before.   *)
C9_DeleteContract ==
    last.op = "delete_recipe" =>
        /\ last.ret = "None"
        /\ Recipes(mgr.data) =
               SelectSeq(Recipes(last.pre), LAMBDA r : Get(r, "id") # last.args.id)
        /\ ~HasRecord(last.pre, last.args.id) => Recipes(mgr.data) = Recipes(last.pre)
        /\ Folders(mgr.data) = Folders(last.pre)

------------------------------------------------------------------------------
(* C10: add_log on an id that exists returns True and puts the new entry in  *)
(* front of the log entries of the (first) record with that id, the earlier  *)
(* ones following in their order; no call other than delete_recipe changes   *)
(* the position of a record, and after it the earlier log entries of every   *)
(* record are the tail of its log entries; add_log changes no other record's.*)
IsTailOf(earlier, later) ==
    /\ Len(earlier) <= Len(later)
    /\ SubSeq(later, Len(later) - Len(earlier) + 1, Len(later)) = earlier

C10_LogsPrependOnly ==
    /\ (last.op = "add_log" /\ HasRecord(last.pre, last.args.id)) =>
           LET i == FirstPosition(last.pre, last.args.id)
           IN /\ last.ret = "True"
              /\ Len(Recipes(mgr.data)) = Len(Recipes(last.pre))
              /\ LogsOf(Recipes(mgr.data)[i]) # <<>>
              /\ Get(Head(LogsOf(Recipes(mgr.data)[i])), "text") = last.args.log_text
              /\ Get(Head(LogsOf(Recipes(mgr.data)[i])), "date") = last.args.now
              /\ Tail(LogsOf(Recipes(mgr.data)[i])) = LogsOf(Recipes(last.pre)[i])
              /\ \A j \in 1..Len(Recipes(last.pre)) :
                     j # i => LogsOf(Recipes(mgr.data)[j]) = LogsOf(Recipes(last.pre)[j])
    /\ (IsMethodCall /\ last.op # "delete_recipe") =>
           /\ Len(Recipes(mgr.data)) >= Len(Recipes(last.pre))
           /\ \A j \in 1..Len(Recipes(last.pre)) :
                  /\ Get(Recipes(mgr.data)[j], "id") = Get(Recipes(last.pre)[j], "id")
                  /\ IsTailOf(LogsOf(Recipes(last.pre)[j]), LogsOf(Recipes(mgr.data)[j]))

------------------------------------------------------------------------------
(* C11: when a method of the manager has ended, the local file holds the     *)
(* serialization of the document in memory if the method saved, and the      *)
(* document in memory is the one before the call if it did not; a method     *)
(* that returned success (True, or None from add_recipe and delete_recipe)   *)
(* has saved.  So no change in memory is missing from the file.              *)
C11_ImmediateDurability ==
    IsMethodCall =>
        /\ last.wrote => files[mgr.filename] = FileOf(json_dumps(mgr.data))
        /\ ~last.wrote => mgr.data = last.pre
        /\ last.ret \in {"True", "None"} => last.wrote

\* add_log has changed a record and the file holds the new document
C11_Witness ==
    /\ last.op = "add_log"
    /\ last.ret = "True"
    /\ mgr.data # last.pre
    /\ files[mgr.filename] = FileOf(json_dumps(mgr.data))
    /\ json_load(files[mgr.filename].text).v = mgr.data

------------------------------------------------------------------------------
(* Vocabulary of the sync properties *)

\* the calls a process has made on the repository in its last save, by name
CallsOf(wr) == [i \in 1..Len(wr.requests) |-> wr.requests[i].call]

HasAsked(wr, call) == \E i \in 1..Len(wr.requests) : wr.requests[i].call = call

\* the process is inside _sync_to_github, or has been in its last save
InSync(wr) == wr.pc # "idle" \/ wr.requests # <<>> \/ wr.fault # "none"

\* the last sync of the process has ended in a failure
SyncFailed(wr) == wr.pc = "idle" /\ wr.fault # "none"

------------------------------------------------------------------------------
(* C12: in every save, from the first step of the sync on, the local file    *)
(* holds the serialization of the document in memory and the sync has been   *)
(* given that same text, every write call carries it, and the file and the   *)
(* document stay so however the sync goes and ends.                          *)
C12_SyncAfterLocalWrite ==
    \A w \in Writers :
        LET wr == writers[w]
        IN /\ wr.saves > 0 => wr.file = FileOf(json_dumps(wr.data))
           /\ InSync(wr) =>
                  /\ wr.saves > 0
                  /\ wr.file = FileOf(wr.content)
                  /\ \A i \in 1..Len(wr.requests) :
                         wr.requests[i].call \in {"update_file", "create_file"} =>
                             wr.requests[i].content = wr.file.text

\* a sync has failed after an update call, the repository holds another text,
\* and the file is as it was written
C12_Witness ==
    \E w \in Writers :
        /\ SyncFailed(writers[w])
        /\ HasAsked(writers[w], "update_file")
        /\ remote # BlobOf(writers[w].content)
        /\ writers[w].file = FileOf(writers[w].content)
        /\ json_load(writers[w].file.text).v = writers[w].data

------------------------------------------------------------------------------
(* C13: when get_contents has signalled 404, the sync makes a create call    *)
(* next and no update call; when it has returned the blob's metadata, the    *)
(* sync makes an update call next, with exactly the sha and the path that    *)
(* get_contents returned and with the text of the save.                      *)
C13_UpdateOrCreate ==
    \A w \in Writers :
        LET wr == writers[w]
        IN /\ wr.fetched.status = "404" =>
                  /\ ~HasAsked(wr, "update_file")
                  /\ wr.pc = "create_file" \/ CallsOf(wr) = <<"get_contents", "create_file">>
           /\ wr.fetched.status = "200" =>
                  /\ wr.pc = "update_file" \/ Len(wr.requests) >= 2
                  /\ Len(wr.requests) >= 2 =>
                         /\ wr.requests[2].call = "update_file"
                         /\ wr.requests[2].sha = wr.fetched.sha
                         /\ wr.requests[2].path = wr.fetched.path
                         /\ wr.requests[2].content = wr.content
           /\ \A i \in 1..Len(wr.requests) :
                  wr.requests[i].call = "update_file" =>
                      /\ i = 2
                      /\ wr.fetched.status = "200"
           /\ wr.requests # <<>> => wr.requests[1].call = "get_contents"

\* one process has created the blob after a 404, the other has updated it with
\* the sha it fetched
C13_Witness ==
    \E w, v \in Writers :
        /\ writers[w].fetched.status = "404"
        /\ CallsOf(writers[w]) = <<"get_contents", "create_file">>
        /\ writers[v].fetched.status = "200"
        /\ CallsOf(writers[v]) = <<"get_contents", "update_file">>
        /\ writers[v].requests[2].sha = writers[w].content
        /\ remote = BlobOf(writers[v].content)

------------------------------------------------------------------------------
(* C14: a sync that has failed, for whatever reason (setup, network, a       *)
(* status of GitHub, an update refused for a stale sha), has shown the user  *)
(* a warning, and has made no call twice.                                    *)
C14_FailureWarns ==
    \A w \in Writers :
        SyncFailed(writers[w]) =>
            /\ writers[w].ui = "warning"
            /\ \A i, j \in 1..Len(writers[w].requests) :
                   writers[w].requests[i].call = writers[w].requests[j].call => i = j

------------------------------------------------------------------------------
------------------------------------------------------------------------------
(* Vocabulary of the query properties *)

\* sub occurs in text, upper and lower case taken as the same
CaselessIn(sub, text) ==
    \E i \in 0..(Len(text) - Len(sub)) :
        \A k \in 1..Len(sub) : LowerChar(text[i + k]) = LowerChar(sub[k])

\* the names of the ingredient rows, a row without a name counting as an empty one
IngredientNames(r) ==
    LET rows == Get(r, "ingredients").items
    IN [i \in 1..Len(rows) |->
           IF Has(rows[i], "shokuzai") /\ IsStr(Get(rows[i], "shokuzai"))
           THEN Get(rows[i], "shokuzai").s ELSE <<>>]

ShouldMatch(r, selected_folder, search_query) ==
    /\ selected_folder = ALL_FOLDERS \/ Get(r, "folder") = selected_folder
    /\ search_query # EmptyStr =>
           \/ CaselessIn(search_query.s, Get(r, "title").s)
           \/ /\ Has(r, "ingredients")
              /\ IF IsStr(Get(r, "ingredients"))
                 THEN CaselessIn(search_query.s, Get(r, "ingredients").s)
                 ELSE CaselessIn(search_query.s, Join(IngredientNames(r)))

RatingOf(r) == IF Has(r, "rating") THEN Get(r, "rating").n ELSE 0

\* where a record stands in a sequence of distinct records
PlaceIn(s, r) == CHOOSE i \in 1..Len(s) : s[i] = r

------------------------------------------------------------------------------
(* C15: the filter returns, in storage order, exactly the records whose      *)
(* folder is the selected one (all folders under the "all" entry) and, when  *)
(* a search text is given, whose title or whose ingredient names joined by   *)
(* blanks (or ingredient text, for a plain string) contain it, case apart;   *)
(* steps and seasonings do not count.                                        *)
C15_FilterExact ==
    last.op = "query" =>
        last.ret.filtered =
            SelectSeq(Recipes(last.pre),
                      LAMBDA r : ShouldMatch(r, last.args.selected_folder,
                                             last.args.search_query))

------------------------------------------------------------------------------
(* C16: "oldest" shows the filtered records in storage order, "newest" in    *)
(* the reverse; the rating orders show them by rating, rising or falling,    *)
(* records of equal rating in storage order; what is shown is a permutation  *)
(* of the filtered records, and the stored records are as they were.         *)
C16_SortContract ==
    last.op = "query" =>
        LET f == last.ret.filtered
            s == last.ret.shown
            order == last.args.sort_order
        IN /\ Len(s) = Len(f)
           /\ \A i \in 1..Len(f) : \E j \in 1..Len(s) : s[j] = f[i]
           /\ order = "oldest" => s = f
           /\ order = "newest" => \A i \in 1..Len(f) : s[i] = f[Len(f) + 1 - i]
           /\ order \in {"rating_asc", "rating_desc"} =>
                  \A i, j \in 1..Len(s) :
                      i < j =>
                          /\ order = "rating_asc" => RatingOf(s[i]) <= RatingOf(s[j])
                          /\ order = "rating_desc" => RatingOf(s[i]) >= RatingOf(s[j])
                          /\ RatingOf(s[i]) = RatingOf(s[j]) => PlaceIn(f, s[i]) < PlaceIn(f, s[j])
           /\ mgr.data = last.pre

\* falling rating order with two records of rating 3 stored before one of rating 5
C16_Witness ==
    /\ last.op = "query"
    /\ last.args.sort_order = "rating_desc"
    /\ Len(last.ret.filtered) = 3
    /\ RatingOf(last.ret.filtered[1]) = RatingOf(last.ret.filtered[2])
    /\ RatingOf(last.ret.filtered[3]) > RatingOf(last.ret.filtered[1])
    /\ last.ret.shown = <<last.ret.filtered[3], last.ret.filtered[1], last.ret.filtered[2]>>

------------------------------------------------------------------------------
(* Vocabulary of the form properties *)

\* the values of one column of a data frame that are neither null nor empty
Filled(df, column) ==
    LET c == CHOOSE k \in 1..Len(df.columns) : df.columns[k] = column
    IN {i \in 1..Len(df.rows) : df.rows[i][c] \notin {None, EmptyStr}}

\* the rows of a stored list whose name (the value under key) is null, empty or missing
Nameless(rows, key) ==
    {i \in 1..Len(rows.items) :
        ~Has(rows.items[i], key) \/ Get(rows.items[i], key) \in {None, EmptyStr}}

IsSubmit == last.op \in {"submit_new", "submit_update"}

------------------------------------------------------------------------------
(* C17: from an empty document, after any submissions of the registration    *)
(* form and of the edit form, every stored record has a title that is not    *)
(* empty and a step that is not empty; a submission with an empty title or   *)
(* without a non-empty step is rejected: the document is as before, nothing  *)
(* is written.                                                               *)
C17_FormsValidate ==
    /\ mgr.live =>
           \A i \in 1..Len(Recipes(mgr.data)) :
               /\ Get(Recipes(mgr.data)[i], "title") # EmptyStr
               /\ Nameless(Get(Recipes(mgr.data)[i], "steps"), "tejun")
                      # 1..Len(Get(Recipes(mgr.data)[i], "steps").items)
    /\ (IsSubmit /\ (last.args.form.title = EmptyStr
                     \/ Filled(last.args.form.steps_df, "tejun") = {})) =>
           /\ last.ret = "error"
           /\ mgr.data = last.pre
           /\ ~last.wrote

------------------------------------------------------------------------------
(* C18: after add_recipe and after update_recipe on an id that exists, with  *)
(* whatever rows they were given, the record stored has no ingredient row    *)
(* and no seasoning row whose name is null or empty; after a submission of   *)
(* a form neither.                                                           *)
C18_NoNamelessRows ==
    (\/ last.op = "add_recipe" /\ last.ret = "None"
     \/ last.op = "update_recipe" /\ last.ret = "True"
     \/ IsSubmit /\ last.ret \in {"None", "True"}) =>
        LET stored == IF last.op \in {"add_recipe", "submit_new"}
                      THEN Recipes(mgr.data)[Len(Recipes(mgr.data))]
                      ELSE Recipes(mgr.data)[FirstPosition(mgr.data, last.args.id)]
        IN /\ Nameless(Get(stored, "ingredients"), "shokuzai") = {}
           /\ Nameless(Get(stored, "seasonings"), "chomiryo") = {}

------------------------------------------------------------------------------
(* C19: on a document loaded from a file that decoded, whatever its          *)
(* generation, every method ends with a result of its own: add_folder,       *)
(* update_recipe, update_rating and add_log with True or False, add_recipe   *)
(* and delete_recipe with None; none raises.                                 *)
C19_NoMethodRaises ==
    IsMethodCall =>
        IF last.op \in {"add_recipe", "delete_recipe"}
        THEN last.ret = "None"
        ELSE last.ret \in {"True", "False"}

------------------------------------------------------------------------------
(* C21: the folder list of the live manager has no name twice and no empty   *)
(* name; a load keeps the stored folders, in their order, at the front of    *)
(* the list, a method keeps the folders it found, in their order, at the     *)
(* front, and a method other than add_folder leaves the list as it was.      *)
IsPrefixOf(earlier, later) ==
    /\ Len(earlier) <= Len(later)
    /\ SubSeq(later, 1, Len(earlier)) = earlier

------------------------------------------------------------------------------
(* C22: add_recipe puts the new record, with the id drawn for it, after the  *)
(* records that were there, which stay as they stood; update_recipe,         *)
(* update_rating and add_log leave every id at its position; delete_recipe   *)
(* leaves the other ids in their order.  So the ids stand in the order in    *)
(* which their records were made.                                            *)
IdsOf(data) == [i \in 1..Len(Recipes(data)) |-> Get(Recipes(data)[i], "id")]

C22_CreationOrder ==
    /\ last.op = "add_recipe" =>
           /\ Len(Recipes(mgr.data)) = Len(Recipes(last.pre)) + 1
           /\ IsPrefixOf(Recipes(last.pre), Recipes(mgr.data))
           /\ IdsOf(mgr.data) = Append(IdsOf(last.pre), last.args.id)
    /\ last.op \in {"update_recipe", "update_rating", "add_log"} =>
           IdsOf(mgr.data) = IdsOf(last.pre)
    /\ last.op = "delete_recipe" =>
           IdsOf(mgr.data) = SelectSeq(IdsOf(last.pre), LAMBDA id : id # last.args.id)

------------------------------------------------------------------------------
(* C23: in one save a process makes at most one write call on the            *)
(* repository, an update or a create and never both, and it makes a create   *)
(* call only when get_contents itself has signalled 404.                     *)
WriteCalls(wr) ==
    {i \in 1..Len(wr.requests) : wr.requests[i].call \in {"update_file", "create_file"}}

C23_OneWriteCall ==
    \A w \in Writers :
        /\ Cardinality(WriteCalls(writers[w])) <= 1
        /\ ~(HasAsked(writers[w], "update_file") /\ HasAsked(writers[w], "create_file"))
        /\ (HasAsked(writers[w], "create_file") \/ writers[w].pc = "create_file") =>
               writers[w].fetched.status = "404"

====
